---------------------------- MODULE Spec2Model ----------------------------
(***************************************************************************)
(* A model of tap-amazon-associates: the listing scraper, the incremental  *)
(* sync coordinator and the per-file fetch / gunzip / line / row pipeline  *)
(* of tap_amazon_associates/streams.py.                                    *)
(*                                                                         *)
(* Python str and bytes values are sequences of one-character strings.     *)
(* Optional values (None, an unbound local) are sequences of length <= 1:  *)
(* None is << >> and Some(x) is << x >>.                                   *)
(***************************************************************************)
EXTENDS Integers, Sequences, FiniteSets, TLC

VARIABLES
    page,        \* match_list: the rows re.findall extracts from the listing page
    watermark,   \* stream_state["starting_replication_value"] (optional)
    selected,    \* names of the child streams whose .selected is true
    pc,          \* where the run is: start, records, children, streaming, done, failed
    file_list,   \* rows parse_response still has to hand to the framework
    descriptors, \* post-processed ReportList records (descriptors) produced so far
    dispatched,  \* <<filename, child name>> of every child_stream.sync call so far
    error,       \* the exception that ended the run (optional)
    logged,      \* number of logger.error calls
    kid,         \* index of the child stream _sync_children's loop is at
    child,       \* name of the child stream whose sync is running (optional)
    ctx,         \* child context of the running child sync (optional)
    attempts,    \* requests.get calls made for the running child sync
    stream,      \* compressed tokens of the response not yet iterated
    o,           \* the zlib decompressobj of the running decompress_stream
    pending,     \* iter_decompressed_lines' pending fragment (optional)
    i,           \* parse_response's enumerate index
    headers,     \* parse_response's local `headers` (optional: unbound until line 1)
    out,         \* records emitted by the child syncs, in order, each with the
                 \* header and line it was made from and its descriptor's index
    text,        \* the uncompressed text of the file being served
    yielded,     \* number of chunks decompress_stream has yielded for this file
    lines,       \* lines iter_decompressed_lines has yielded for this file
    fed          \* number of compressed chunks fed to the inflate state for this file

vars == << page, watermark, selected, pc, file_list, descriptors,
           dispatched, error, logged, kid, child, ctx, attempts, stream, o,
           pending, i, headers, out, text, yielded, lines, fed >>

listingVars == << page, watermark, selected, file_list, descriptors,
                  dispatched, logged >>

---------------------------------------------------------------------------
(* Bounds of the model. *)

\* longest uncompressed text drawn exhaustively over Alphabet
MaxLen == 4

\* most chunks (empty ones included) a response is cut into
MaxChunks == 7

\* most rows of a listing page
MaxRows == 2

\* the size, in tokens, of the chunks a response is read in during a run
ChunkTokens == 8

---------------------------------------------------------------------------
(* Optional values and generic sequence helpers. *)

None == << >>

Some(x) == << x >>

IsNone(x) == x = << >>

Last(s) == s[Len(s)]

Front(s) == SubSeq(s, 1, Len(s) - 1)

Min(a, b) == IF a <= b THEN a ELSE b

Max(a, b) == IF a >= b THEN a ELSE b

RECURSIVE Flatten(_)
Flatten(ss) == IF ss = << >> THEN << >> ELSE Head(ss) \o Flatten(Tail(ss))

\* all sequences over S of length at most n
SeqsUpTo(S, n) == UNION { [1..k -> S] : k \in 0..n }

LF == "\n"

CR == "\r"

TAB == "\t"

QUOTE == "\""

---------------------------------------------------------------------------
(* Python string methods used by the code. *)

\* x in s  (substring test)
Contains(s, x) ==
    \E k \in 1..(Len(s) - Len(x) + 1) : SubSeq(s, k, k + Len(x) - 1) = x

\* s.split(sep) for a one-character sep: always at least one field
RECURSIVE SplitOn(_, _)
SplitOn(s, sep) ==
    IF \A k \in 1..Len(s) : s[k] # sep
    THEN << s >>
    ELSE LET p == CHOOSE k \in 1..Len(s) :
                      s[k] = sep /\ \A j \in 1..(k - 1) : s[j] # sep
         IN  << SubSeq(s, 1, p - 1) >> \o SplitOn(SubSeq(s, p + 1, Len(s)), sep)

\* s.replace(x, y) for a one-character x
ReplaceChar(s, x, y) ==
    Flatten([k \in 1..Len(s) |-> IF s[k] = x THEN y ELSE << s[k] >>])

\* s.replace(x, y) for any non-empty x: leftmost, non-overlapping occurrences
RECURSIVE ReplaceStr(_, _, _)
ReplaceStr(s, x, y) ==
    IF Len(s) < Len(x) THEN s
    ELSE IF SubSeq(s, 1, Len(x)) = x
         THEN y \o ReplaceStr(SubSeq(s, Len(x) + 1, Len(s)), x, y)
         ELSE << s[1] >> \o ReplaceStr(Tail(s), x, y)

Uppers == << "A","B","C","D","E","F","G","H","I","J","K","L","M",
             "N","O","P","Q","R","S","T","U","V","W","X","Y","Z" >>

Lowers == << "a","b","c","d","e","f","g","h","i","j","k","l","m",
             "n","o","p","q","r","s","t","u","v","w","x","y","z" >>

Digits == << "0","1","2","3","4","5","6","7","8","9" >>

UpperLetters == { Uppers[k] : k \in 1..26 }

LowerLetters == { Lowers[k] : k \in 1..26 }

DigitChars == { Digits[k] : k \in 1..10 }

IsUpper(c) == c \in UpperLetters

IsLower(c) == c \in LowerLetters

IsAlpha(c) == IsUpper(c) \/ IsLower(c)

IsDigit(c) == c \in DigitChars

\* a character matched by the regex class \w
IsWord(c) == IsAlpha(c) \/ IsDigit(c) \/ c = "_"

\* the lower-case letter of each upper-case letter, and the reverse
ToLower == [c \in UpperLetters |-> Lowers[CHOOSE k \in 1..26 : Uppers[k] = c]]

ToUpper == [c \in LowerLetters |-> Uppers[CHOOSE k \in 1..26 : Lowers[k] = c]]

LowerChar(c) == IF IsUpper(c) THEN ToLower[c] ELSE c

UpperChar(c) == IF IsLower(c) THEN ToUpper[c] ELSE c

\* s.lower()
Lower(s) == [k \in 1..Len(s) |-> LowerChar(s[k])]

\* s.title(): a letter is upper-cased when it does not follow a letter,
\* lower-cased when it does
Title(s) ==
    [k \in 1..Len(s) |->
        IF k > 1 /\ IsAlpha(s[k - 1]) THEN LowerChar(s[k]) ELSE UpperChar(s[k])]

\* bytes.splitlines(): lines end at \n, \r or \r\n; the terminators are
\* dropped and a final empty piece is not a line
RECURSIVE SplitLinesFrom(_, _, _)
SplitLinesFrom(s, k, cur) ==
    IF k > Len(s) THEN (IF cur = << >> THEN << >> ELSE << cur >>)
    ELSE IF s[k] = CR /\ k < Len(s) /\ s[k + 1] = LF
         THEN << cur >> \o SplitLinesFrom(s, k + 2, << >>)
    ELSE IF s[k] = CR \/ s[k] = LF
         THEN << cur >> \o SplitLinesFrom(s, k + 1, << >>)
    ELSE SplitLinesFrom(s, k + 1, Append(cur, s[k]))

SplitLines(s) == SplitLinesFrom(s, 1, << >>)

---------------------------------------------------------------------------
(* Python dicts: insertion-ordered sequences of [k, v] items, keys unique. *)

DictHas(d, key) == \E n \in 1..Len(d) : d[n].k = key

DictGet(d, key) == d[CHOOSE n \in 1..Len(d) : d[n].k = key].v

\* d[key] = val: an existing key keeps its place
DictSet(d, key, val) ==
    IF DictHas(d, key)
    THEN [n \in 1..Len(d) |-> IF d[n].k = key THEN [k |-> key, v |-> val] ELSE d[n]]
    ELSE Append(d, [k |-> key, v |-> val])

\* dict(items) / {k: v for k, v in items}
RECURSIVE DictOf(_)
DictOf(items) ==
    IF items = << >> THEN << >>
    ELSE DictSet(DictOf(Front(items)), Last(items).k, Last(items).v)

---------------------------------------------------------------------------
(* String constants of the code. *)

\* "EarningsReport"
N_EarningsReport == << "E", "a", "r", "n", "i", "n", "g", "s", "R", "e",
    "p", "o", "r", "t" >>

\* "EarningsReportSubtags"
N_EarningsReportSubtags == << "E", "a", "r", "n", "i", "n", "g", "s", "R",
    "e", "p", "o", "r", "t", "S", "u", "b", "t", "a", "g", "s" >>

\* "OrdersReport"
N_OrdersReport == << "O", "r", "d", "e", "r", "s", "R", "e", "p", "o", "r",
    "t" >>

\* "OrdersReportSubtags"
N_OrdersReportSubtags == << "O", "r", "d", "e", "r", "s", "R", "e", "p",
    "o", "r", "t", "S", "u", "b", "t", "a", "g", "s" >>

\* "TrackingReport"
N_TrackingReport == << "T", "r", "a", "c", "k", "i", "n", "g", "R", "e",
    "p", "o", "r", "t" >>

\* "Cp_Utm_Source_ReportReport"
N_UtmSourceReport == << "C", "p", "_", "U", "t", "m", "_", "S", "o", "u",
    "r", "c", "e", "_", "R", "e", "p", "o", "r", "t", "R", "e", "p", "o",
    "r", "t" >>

\* "uk-21"
S_uk21 == << "u", "k", "-", "2", "1" >>

\* "tsv"
S_tsv == << "t", "s", "v" >>

\* "bounty"
S_bounty == << "b", "o", "u", "n", "t", "y" >>

\* "UTC"
S_UTC == << "U", "T", "C" >>

\* "Subtags"
S_Subtags == << "S", "u", "b", "t", "a", "g", "s" >>

\* ".tsv.gz"
S_tsvgz == << ".", "t", "s", "v", ".", "g", "z" >>

\* "filename"
S_filename == << "f", "i", "l", "e", "n", "a", "m", "e" >>

\* "report_type"
S_report_type == << "r", "e", "p", "o", "r", "t", "_", "t", "y", "p",
    "e" >>

\* "last_modified"
S_last_modified == << "l", "a", "s", "t", "_", "m", "o", "d", "i", "f",
    "i", "e", "d" >>

\* "download"
\* "Sub Tag"
S_SubTag == << "S", "u", "b", " ", "T", "a", "g" >>

\* "subtag"
S_subtag == << "s", "u", "b", "t", "a", "g" >>

---------------------------------------------------------------------------
(* zlib / gzip, as the code uses it.  A gzip stream is a header token, one *)
(* literal token per uncompressed byte and an end token (the CRC/length    *)
(* trailer); a token of kind "bad" is a corrupted byte.                    *)

GzHdr == [t |-> "hdr", b |-> ""]

GzEnd == [t |-> "end", b |-> ""]

GzBad == [t |-> "bad", b |-> ""]

GzLit(c) == [t |-> "lit", b |-> c]

\* gzip.compress(s)
Gzip(s) == << GzHdr >> \o [k \in 1..Len(s) |-> GzLit(s[k])] \o << GzEnd >>

\* zlib.decompressobj(16 + zlib.MAX_WBITS): expects a gzip header first
decompressobj == [hdr |-> FALSE, eof |-> FALSE]

\* o.decompress(c): the inflate state after c, the bytes it returns, and
\* whether zlib.error is raised (then nothing is returned for c).
\* Bytes after the end token are unused_data and are ignored.
RECURSIVE Inflate(_, _, _)
Inflate(st, c, data) ==
    IF c = << >> THEN [o |-> st, data |-> data, ok |-> TRUE]
    ELSE LET tk == Head(c) IN
         IF st.eof THEN Inflate(st, Tail(c), data)
         ELSE IF ~st.hdr
              THEN IF tk.t = "hdr"
                   THEN Inflate([st EXCEPT !.hdr = TRUE], Tail(c), data)
                   ELSE [o |-> st, data |-> << >>, ok |-> FALSE]
         ELSE IF tk.t = "lit" THEN Inflate(st, Tail(c), Append(data, tk.b))
         ELSE IF tk.t = "end" THEN Inflate([st EXCEPT !.eof = TRUE], Tail(c), data)
         ELSE [o |-> st, data |-> << >>, ok |-> FALSE]

decompress(st, c) == Inflate(st, c, << >>)

\* o.flush(): decompress() already returned everything available, so the
\* tail is empty; a truncated stream is not an error here
flush(st) == << >>

---------------------------------------------------------------------------
(* ReportStream.iter_decompressed_lines: one turn of its for loop. *)

\* the condition of line 154 on the joined chunk c and its split lines
KeepsPending(ls, c) ==
    /\ ls # << >>
    /\ Last(ls) # << >>
    /\ c # << >>
    /\ Last(Last(ls)) = Last(c)

\* the lines yielded for chunk c0 and the new pending fragment
iter_decompressed_lines(pend, c0) ==
    LET c  == IF ~IsNone(pend) THEN pend[1] \o c0 ELSE c0
        ls == SplitLines(c)
    IN  IF KeepsPending(ls, c)
        THEN [yield |-> Front(ls), pending |-> Some(Last(ls))]
        ELSE [yield |-> ls, pending |-> None]

---------------------------------------------------------------------------
(* ReportStream.format_key, post_process and parse_response. *)

SubtagStreams == { N_EarningsReportSubtags, N_OrdersReportSubtags }

\* key.replace(" ", "_").lower(); the two subtag streams first replace
\* "Sub Tag" by "subtag"
format_key(name, key) ==
    IF name \in SubtagStreams
    THEN Lower(ReplaceChar(ReplaceStr(key, S_SubTag, S_subtag), " ", << "_" >>))
    ELSE Lower(ReplaceChar(key, " ", << "_" >>))

\* post_process with the two halves of the merge swapped: parsed fields win
post_process_parsed_wins(name, row, context) ==
    LET formatted == [n \in 1..Len(row) |->
                         [k |-> format_key(name, row[n].k), v |-> row[n].v]]
    IN  DictOf(<< [k |-> S_filename, v |-> context.filename],
                  [k |-> S_report_type, v |-> context.report_type],
                  [k |-> S_last_modified, v |-> context.last_modified] >>
               \o formatted)

\* {**{format_key(k): v ...}, **{filename, report_type, last_modified}}
post_process(name, row, context) ==
    LET formatted == DictOf([n \in 1..Len(row) |->
                               [k |-> format_key(name, row[n].k), v |-> row[n].v]])
        d1 == DictSet(formatted, S_filename, context.filename)
        d2 == DictSet(d1, S_report_type, context.report_type)
    IN  DictSet(d2, S_last_modified, context.last_modified)

\* the row of a zip that insists on as many values as header names
ZipRow_strict(hs, c_arr) ==
    IF Len(hs) # Len(c_arr) THEN << >>
    ELSE DictOf([n \in 1..Len(hs) |->
                   [k |-> hs[n], v |-> ReplaceStr(c_arr[n], << QUOTE, QUOTE >>, << >>)]])

\* {k: v.replace('""', "") for k, v in zip(headers, c_arr)}
ZipRow(hs, c_arr) ==
    DictOf([n \in 1..Min(Len(hs), Len(c_arr)) |->
              [k |-> hs[n], v |-> ReplaceStr(c_arr[n], << QUOTE, QUOTE >>, << >>)]])

\* parse_line without the test of line 228: empty lines become rows too
parse_line_keeps_empty(st, c, name, context) ==
    IF st.i = 0 THEN [st EXCEPT !.i = st.i + 1]
    ELSE IF st.i = 1
         THEN [st EXCEPT !.i = st.i + 1, !.headers = Some(SplitOn(c, TAB))]
    ELSE [st EXCEPT !.i = st.i + 1,
                    !.recs = Append(st.recs,
                        [rec  |-> post_process(name,
                                      ZipRow(st.headers[1], SplitOn(c, TAB)),
                                      context),
                         hdr  |-> st.headers[1],
                         line |-> c])]

\* the body of parse_response's loop for line c at index st.i, followed by
\* the framework's post_process of the record it yields; the record is kept
\* with the header and the line it was made from.  Reading the unbound
\* local `headers` raises UnboundLocalError.
parse_line(st, c, name, context) ==
    IF c = << >> \/ st.i = 0 THEN [st EXCEPT !.i = st.i + 1]
    ELSE IF st.i = 1
         THEN [st EXCEPT !.i = st.i + 1, !.headers = Some(SplitOn(c, TAB))]
    ELSE IF IsNone(st.headers)
         THEN [st EXCEPT !.err = Some("UnboundLocalError: headers")]
    ELSE [st EXCEPT !.i = st.i + 1,
                    !.recs = Append(st.recs,
                        [rec  |-> post_process(name,
                                      ZipRow(st.headers[1], SplitOn(c, TAB)),
                                      context),
                         hdr  |-> st.headers[1],
                         line |-> c])]

\* parse_response over the lines one chunk makes available; it stops at the
\* first exception, keeping what was yielded before it
RECURSIVE parse_lines(_, _, _, _)
parse_lines(st, ls, name, context) ==
    IF ls = << >> \/ ~IsNone(st.err) THEN st
    ELSE parse_lines([parse_line(st, Head(ls), name, context)
                         EXCEPT !.seen = Append(st.seen, Head(ls))],
                     Tail(ls), name, context)

---------------------------------------------------------------------------
(* datetime.strptime / strftime for the three formats the code uses.       *)
(* A datetime is the tuple <<year, month, day, hour, minute, second>>; the *)
(* value strptime returns for these formats is naive: %Z is matched and    *)
(* then dropped, so strftime's %Z of it is the empty string.  Numeric      *)
(* fields are read at their zero-padded width, the form every timestamp of *)
(* the portal, of the scraper and of the persisted state has.              *)

\* the zone names %Z matches (case-insensitively): "utc", "gmt" and the
\* names in time.tzname, which on a host running in UTC add nothing
ZoneNames == { << "u", "t", "c" >>, << "g", "m", "t" >> }

DayNames ==
    { << "m", "o", "n" >>, << "t", "u", "e" >>, << "w", "e", "d" >>,
      << "t", "h", "u" >>, << "f", "r", "i" >>, << "s", "a", "t" >>,
      << "s", "u", "n" >> }

MonthNames ==
    << << "j", "a", "n" >>, << "f", "e", "b" >>, << "m", "a", "r" >>,
       << "a", "p", "r" >>, << "m", "a", "y" >>, << "j", "u", "n" >>,
       << "j", "u", "l" >>, << "a", "u", "g" >>, << "s", "e", "p" >>,
       << "o", "c", "t" >>, << "n", "o", "v" >>, << "d", "e", "c" >> >>

DigitVal(c) == (CHOOSE k \in 1..10 : Digits[k] = c) - 1

AllDigits(s) == \A k \in 1..Len(s) : IsDigit(s[k])

\* int(s) for a string of digits
RECURSIVE ToInt(_)
ToInt(s) == IF s = << >> THEN 0 ELSE 10 * ToInt(Front(s)) + DigitVal(Last(s))

\* "%02d" % n and "%04d" % n
Pad2(n) == << Digits[((n \div 10) % 10) + 1], Digits[(n % 10) + 1] >>

Pad4(n) == Pad2(n \div 100) \o Pad2(n % 100)

IsLeap(y) == y % 4 = 0 /\ (y % 100 # 0 \/ y % 400 = 0)

DaysIn(y, m) ==
    IF m = 2 THEN (IF IsLeap(y) THEN 29 ELSE 28)
    ELSE IF m \in { 4, 6, 9, 11 } THEN 30 ELSE 31

\* the field checks of strptime and of the datetime constructor
ValidDate(y, m, d, hh, mm, ss) ==
    /\ y >= 1
    /\ m \in 1..12
    /\ d \in 1..DaysIn(y, m)
    /\ hh \in 0..23
    /\ mm \in 0..59
    /\ ss \in 0..59

\* the "HH:MM:SS" at positions p..p+7 of s
ClockOk(s, p) ==
    /\ AllDigits(SubSeq(s, p, p + 1))
    /\ s[p + 2] = ":"
    /\ AllDigits(SubSeq(s, p + 3, p + 4))
    /\ s[p + 5] = ":"
    /\ AllDigits(SubSeq(s, p + 6, p + 7))

\* the "YYYY-MM-DD" at positions 1..10 of s
DateOk(s) ==
    /\ AllDigits(SubSeq(s, 1, 4))
    /\ s[5] = "-"
    /\ AllDigits(SubSeq(s, 6, 7))
    /\ s[8] = "-"
    /\ AllDigits(SubSeq(s, 9, 10))

DateTimeAt(s, py, pm, pd, pt) ==
    << ToInt(SubSeq(s, py, py + 3)), pm, ToInt(SubSeq(s, pd, pd + 1)),
       ToInt(SubSeq(s, pt, pt + 1)), ToInt(SubSeq(s, pt + 3, pt + 4)),
       ToInt(SubSeq(s, pt + 6, pt + 7)) >>

ValidTuple(t) == ValidDate(t[1], t[2], t[3], t[4], t[5], t[6])

\* datetime.strptime(s, "%a %b %d %H:%M:%S %Z %Y"): Some(datetime), or None
\* where Python raises ValueError
strptime_listing(s) ==
    LET n == Len(s) IN
    IF /\ n >= 26
       /\ Lower(SubSeq(s, 1, 3)) \in DayNames
       /\ s[4] = " "
       /\ \E m \in 1..12 : MonthNames[m] = Lower(SubSeq(s, 5, 7))
       /\ s[8] = " "
       /\ AllDigits(SubSeq(s, 9, 10))
       /\ s[11] = " "
       /\ ClockOk(s, 12)
       /\ s[20] = " "
       /\ Lower(SubSeq(s, 21, n - 5)) \in ZoneNames
       /\ s[n - 4] = " "
       /\ AllDigits(SubSeq(s, n - 3, n))
       /\ ValidTuple(DateTimeAt(s, n - 3,
              CHOOSE m \in 1..12 : MonthNames[m] = Lower(SubSeq(s, 5, 7)), 9, 12))
    THEN Some(DateTimeAt(s, n - 3,
              CHOOSE m \in 1..12 : MonthNames[m] = Lower(SubSeq(s, 5, 7)), 9, 12))
    ELSE None

\* datetime.strptime(s, "%Y-%m-%d %H:%M:%S %Z")
strptime_A(s) ==
    IF /\ Len(s) >= 21
       /\ DateOk(s)
       /\ s[11] = " "
       /\ ClockOk(s, 12)
       /\ s[20] = " "
       /\ Lower(SubSeq(s, 21, Len(s))) \in ZoneNames
       /\ ValidTuple(DateTimeAt(s, 1, ToInt(SubSeq(s, 6, 7)), 9, 12))
    THEN Some(DateTimeAt(s, 1, ToInt(SubSeq(s, 6, 7)), 9, 12))
    ELSE None

\* datetime.strptime(s, "%Y-%m-%dT%H:%M:%SZ")
strptime_B(s) ==
    IF /\ Len(s) = 20
       /\ DateOk(s)
       /\ s[11] = "T"
       /\ ClockOk(s, 12)
       /\ s[20] = "Z"
       /\ ValidTuple(DateTimeAt(s, 1, ToInt(SubSeq(s, 6, 7)), 9, 12))
    THEN Some(DateTimeAt(s, 1, ToInt(SubSeq(s, 6, 7)), 9, 12))
    ELSE None

\* strftime as it would be for an aware dt in UTC: %Z is "UTC"
strftime_A_aware(dt) ==
    Pad4(dt[1]) \o << "-" >> \o Pad2(dt[2]) \o << "-" >> \o Pad2(dt[3])
      \o << " " >> \o Pad2(dt[4]) \o << ":" >> \o Pad2(dt[5]) \o << ":" >>
      \o Pad2(dt[6]) \o << " " >> \o << "U", "T", "C" >>

\* dt.strftime("%Y-%m-%d %H:%M:%S %Z") for a naive dt: %Z is empty
strftime_A(dt) ==
    Pad4(dt[1]) \o << "-" >> \o Pad2(dt[2]) \o << "-" >> \o Pad2(dt[3])
      \o << " " >> \o Pad2(dt[4]) \o << ":" >> \o Pad2(dt[5]) \o << ":" >>
      \o Pad2(dt[6]) \o << " " >> \o << >>

\* a > b for two datetimes
DateTimeGreater(a, b) ==
    \E k \in 1..6 : a[k] > b[k] /\ \A j \in 1..(k - 1) : a[j] = b[j]

---------------------------------------------------------------------------
(* ReportListStream: the scraper.                                          *)

\* the length of the longest run of \w characters s starts with
WordRun(s) ==
    CHOOSE p \in 0..Len(s) :
        /\ \A j \in 1..p : IsWord(s[j])
        /\ p < Len(s) => ~IsWord(s[p + 1])

\* where group 1 of the pattern may end when it starts at g: "." matches
\* anything but a newline, and "-", eight digits and ".tsv.gz" must follow
GroupEnds(s, g) ==
    { e \in g..(Len(s) - 16) :
        /\ \A j \in g..e : s[j] # LF
        /\ s[e + 1] = "-"
        /\ AllDigits(SubSeq(s, e + 2, e + 9))
        /\ SubSeq(s, e + 10, e + 16) = S_tsvgz }

SetMax(S) == CHOOSE x \in S : \A y \in S : y <= x

\* re.match(r"\w+-\d{2}-(.+)-\d{8}\.tsv\.gz", s): Some(group(1)), or None
\* where re.match returns None.  The match is anchored at the start only;
\* \w+ can only end at the end of the leading word run, since "-" follows
\* it; the greedy (.+) takes the longest group that lets the rest match.
re_match_group1(s) ==
    LET w    == WordRun(s)
        ends == GroupEnds(s, w + 5)
    IN  IF /\ w >= 1
           /\ Len(s) >= w + 4
           /\ s[w + 1] = "-"
           /\ IsDigit(s[w + 2])
           /\ IsDigit(s[w + 3])
           /\ s[w + 4] = "-"
           /\ ends # { }
        THEN Some(SubSeq(s, w + 5, SetMax(ends)))
        ELSE None

\* group(1).replace("-", " ").title().replace(" ", "")
PascalCase(kind) == ReplaceChar(Title(ReplaceChar(kind, "-", << " " >>)), " ", << >>)

\* extract_report_type with the suffix given to every type of a uk-21 file
extract_report_type_any_type(filename) ==
    IF IsNone(re_match_group1(filename))
    THEN [raised |-> TRUE, value |-> << >>, logs |-> 1]
    ELSE [raised |-> FALSE,
          value  |-> IF Contains(filename, S_uk21)
                     THEN PascalCase(re_match_group1(filename)[1]) \o S_Subtags
                     ELSE PascalCase(re_match_group1(filename)[1]),
          logs   |-> 0]

\* extract_report_type(filename).  When the pattern does not match,
\* None.group raises AttributeError, which is caught and logged; the local
\* report_type is then unbound, and reading it (line 60 when "uk-21" is in
\* the filename, line 62 otherwise) raises UnboundLocalError.
extract_report_type(filename) ==
    LET m    == re_match_group1(filename)
        type == PascalCase(m[1])
    IN  IF IsNone(m)
        THEN [raised |-> TRUE, value |-> << >>, logs |-> 1]
        ELSE [raised |-> FALSE,
              value  |-> IF /\ Contains(filename, S_uk21)
                            /\ type \in { N_EarningsReport, N_OrdersReport }
                         THEN type \o S_Subtags
                         ELSE type,
              logs   |-> 0]

\* the filter without its bounty test
IsReportRow_any_tsv(row) == Contains(row[1], S_tsv)

\* the filter of parse_response, line 105
IsReportRow(row) == Contains(row[1], S_tsv) /\ ~Contains(row[1], S_bounty)

\* the new row without the "UTC" appended on line 110
NewRow_without_UTC(row) ==
    [filename      |-> row[1],
     last_modified |-> strftime_A(strptime_listing(row[2])[1]),
     download      |-> SubSeq(row[3], 2, Len(row[3]) - 1)]

\* lines 106-116: the new row of a kept row whose timestamp parses
NewRow(row) ==
    [filename      |-> row[1],
     last_modified |-> strftime_A(strptime_listing(row[2])[1]) \o S_UTC,
     download      |-> SubSeq(row[3], 2, Len(row[3]) - 1)]

\* ReportListStream.parse_response over match_list: file_list is built
\* completely before anything is yielded, so a timestamp strptime rejects
\* (ValueError) leaves nothing yielded
RECURSIVE ReportList_parse_response(_)
ReportList_parse_response(match_list) ==
    IF match_list = << >> THEN [ok |-> TRUE, file_list |-> << >>]
    ELSE LET rest == ReportList_parse_response(Tail(match_list))
             row  == Head(match_list)
         IN  IF ~IsReportRow(row) THEN rest
             ELSE IF IsNone(strptime_listing(row[2])) \/ ~rest.ok
                  THEN [ok |-> FALSE, file_list |-> << >>]
                  ELSE [ok |-> TRUE, file_list |-> << NewRow(row) >> \o rest.file_list]

\* ReportListStream.post_process: the row with its report_type
ReportList_post_process(row) ==
    LET report_type == extract_report_type(row.filename)
    IN  [raised |-> report_type.raised,
         logs   |-> report_type.logs,
         record |-> [filename      |-> row.filename,
                     last_modified |-> row.last_modified,
                     download      |-> row.download,
                     report_type   |-> report_type.value]]

get_child_context(record) ==
    [filename      |-> record.filename,
     last_modified |-> record.last_modified,
     report_type   |-> record.report_type]

---------------------------------------------------------------------------
(* ReportListStream._sync_children: the coordinator.                       *)

\* self.child_streams: the six report streams, in STREAM_TYPES order
Children ==
    << N_EarningsReport, N_OrdersReport, N_TrackingReport,
       N_EarningsReportSubtags, N_OrdersReportSubtags, N_UtmSourceReport >>

NumChildren == Len(Children)

\* current_max_update_date without the fallback of lines 81-85
current_max_update_date_one_format(wm) ==
    IF IsNone(wm) \/ wm = Some(<< >>) THEN [raised |-> FALSE, date |-> None]
    ELSE IF ~IsNone(strptime_A(wm[1]))
         THEN [raised |-> FALSE, date |-> strptime_A(wm[1])]
    ELSE [raised |-> TRUE, date |-> None]

\* lines 74-85: current_max_update_date.  [raised] when the value is
\* truthy and neither format accepts it; [date] is None when the state
\* holds no (or an empty) starting_replication_value
current_max_update_date(wm) ==
    IF IsNone(wm) \/ wm = Some(<< >>) THEN [raised |-> FALSE, date |-> None]
    ELSE IF ~IsNone(strptime_A(wm[1]))
         THEN [raised |-> FALSE, date |-> strptime_A(wm[1])]
    ELSE IF ~IsNone(strptime_B(wm[1]))
         THEN [raised |-> FALSE, date |-> strptime_B(wm[1])]
    ELSE [raised |-> TRUE, date |-> None]

\* sync_child without the name test of line 90
sync_child_any_name(name, sel, wm, child_context) ==
    IF name \notin sel THEN "skip"
    ELSE IF current_max_update_date(wm).raised THEN "raise"
    ELSE IF IsNone(strptime_A(child_context.last_modified)) THEN "raise"
    ELSE IF /\ ~IsNone(current_max_update_date(wm).date)
            /\ DateTimeGreater(strptime_A(child_context.last_modified)[1],
                               current_max_update_date(wm).date[1])
         THEN "dispatch"
    ELSE "skip"

\* sync_child with the comparison of line 92 weakened to "not earlier"
sync_child_not_earlier(name, sel, wm, child_context) ==
    IF name \notin sel THEN "skip"
    ELSE IF current_max_update_date(wm).raised THEN "raise"
    ELSE IF IsNone(strptime_A(child_context.last_modified)) THEN "raise"
    ELSE IF /\ name = child_context.report_type
            /\ ~IsNone(current_max_update_date(wm).date)
            /\ ~DateTimeGreater(current_max_update_date(wm).date[1],
                                strptime_A(child_context.last_modified)[1])
         THEN "dispatch"
    ELSE "skip"

\* one turn of the loop of lines 72-94 for child stream `name`:
\* "skip", "dispatch" (child_stream.sync is called) or "raise" (ValueError)
sync_child(name, sel, wm, child_context) ==
    IF name \notin sel THEN "skip"
    ELSE IF current_max_update_date(wm).raised THEN "raise"
    ELSE IF IsNone(strptime_A(child_context.last_modified)) THEN "raise"
    ELSE IF /\ name = child_context.report_type
            /\ ~IsNone(current_max_update_date(wm).date)
            /\ DateTimeGreater(strptime_A(child_context.last_modified)[1],
                               current_max_update_date(wm).date[1])
         THEN "dispatch"
    ELSE "skip"

---------------------------------------------------------------------------
(* ReportStream: the fetch.                                                *)

\* backoff_max_tries()
backoff_max_tries == 8

\* the exceptions request_decorator would retry on
RetriedErrors == { "RetriableAPIError", "ReadTimeout", "ConnectionError" }

\* what requests.get can raise in request_records
FetchErrors == { "ReadTimeout", "ConnectionError" }

---------------------------------------------------------------------------
(* Inputs the model draws from: file names, listing timestamps, hrefs,     *)
(* persisted watermarks and report bodies.                                 *)

\* "a-20-earnings-report-20230101.tsv.gz"
F_earn == << "a", "-", "2", "0", "-", "e", "a", "r", "n", "i", "n", "g",
    "s", "-", "r", "e", "p", "o", "r", "t", "-", "2", "0", "2", "3", "0",
    "1", "0", "1", ".", "t", "s", "v", ".", "g", "z" >>

\* "auk-21-earnings-report-20230101.tsv.gz"
F_ukearn == << "a", "u", "k", "-", "2", "1", "-", "e", "a", "r", "n", "i",
    "n", "g", "s", "-", "r", "e", "p", "o", "r", "t", "-", "2", "0", "2",
    "3", "0", "1", "0", "1", ".", "t", "s", "v", ".", "g", "z" >>

\* "auk-21-orders-report-20230101.tsv.gz"
F_ukorders == << "a", "u", "k", "-", "2", "1", "-", "o", "r", "d", "e",
    "r", "s", "-", "r", "e", "p", "o", "r", "t", "-", "2", "0", "2", "3",
    "0", "1", "0", "1", ".", "t", "s", "v", ".", "g", "z" >>

\* "auk-21-tracking-report-20230101.tsv.gz"
F_uktrack == << "a", "u", "k", "-", "2", "1", "-", "t", "r", "a", "c", "k",
    "i", "n", "g", "-", "r", "e", "p", "o", "r", "t", "-", "2", "0", "2",
    "3", "0", "1", "0", "1", ".", "t", "s", "v", ".", "g", "z" >>

\* "a-20-cp_utm_source_report-report-20230101.tsv.gz"
F_utm == << "a", "-", "2", "0", "-", "c", "p", "_", "u", "t", "m", "_",
    "s", "o", "u", "r", "c", "e", "_", "r", "e", "p", "o", "r", "t", "-",
    "r", "e", "p", "o", "r", "t", "-", "2", "0", "2", "3", "0", "1", "0",
    "1", ".", "t", "s", "v", ".", "g", "z" >>

\* "a-20-clicks-20230101.tsv.gz": a report kind no child stream is named for
F_clicks == << "a", "-", "2", "0", "-", "c", "l", "i", "c", "k", "s", "-",
    "2", "0", "2", "3", "0", "1", "0", "1", ".", "t", "s", "v", ".", "g",
    "z" >>

\* "a-20-bounty-report-20230101.tsv.gz"
F_bounty == << "a", "-", "2", "0", "-", "b", "o", "u", "n", "t", "y", "-",
    "r", "e", "p", "o", "r", "t", "-", "2", "0", "2", "3", "0", "1", "0",
    "1", ".", "t", "s", "v", ".", "g", "z" >>

\* "a-20-earnings-report-20230101.xml.gz"
F_xml == << "a", "-", "2", "0", "-", "e", "a", "r", "n", "i", "n", "g",
    "s", "-", "r", "e", "p", "o", "r", "t", "-", "2", "0", "2", "3", "0",
    "1", "0", "1", ".", "x", "m", "l", ".", "g", "z" >>

\* "readme.tsv"
F_readme == << "r", "e", "a", "d", "m", "e", ".", "t", "s", "v" >>

\* "Mon Jan 02 03:04:05 UTC 2023"
T_jan2 == << "M", "o", "n", " ", "J", "a", "n", " ", "0", "2", " ", "0",
    "3", ":", "0", "4", ":", "0", "5", " ", "U", "T", "C", " ", "2", "0",
    "2", "3" >>

\* "Tue Jan 03 00:00:00 GMT 2023"
T_jan3 == << "T", "u", "e", " ", "J", "a", "n", " ", "0", "3", " ", "0",
    "0", ":", "0", "0", ":", "0", "0", " ", "G", "M", "T", " ", "2", "0",
    "2", "3" >>

\* "Mon Jan 02 03:04:05 PST 2023"
T_pst == << "M", "o", "n", " ", "J", "a", "n", " ", "0", "2", " ", "0",
    "3", ":", "0", "4", ":", "0", "5", " ", "P", "S", "T", " ", "2", "0",
    "2", "3" >>

\* ""/x""
H_x == << "\"", "/", "x", "\"" >>

\* "2023-01-01 00:00:00 UTC"
\* "2023-01-02 03:04:05 UTC"
W_jan2 == << "2", "0", "2", "3", "-", "0", "1", "-", "0", "2", " ", "0",
    "3", ":", "0", "4", ":", "0", "5", " ", "U", "T", "C" >>

\* "2023-01-02T03:04:04Z"
W_iso == << "2", "0", "2", "3", "-", "0", "1", "-", "0", "2", "T", "0",
    "3", ":", "0", "4", ":", "0", "4", "Z" >>

\* "yesterday"
W_bad == << "y", "e", "s", "t", "e", "r", "d", "a", "y" >>

\* "T\nA b\tC\n1\t2\n"
B_plain == << "T", "\n", "A", " ", "b", "\t", "C", "\n", "1", "\t", "2",
    "\n" >>

\* "T\nFilename\tA\nf\t1"
B_fn == << "T", "\n", "F", "i", "l", "e", "n", "a", "m", "e", "\t", "A",
    "\n", "f", "\t", "1" >>

\* "T\nReport Type\nr"
B_rt == << "T", "\n", "R", "e", "p", "o", "r", "t", " ", "T", "y", "p",
    "e", "\n", "r" >>

\* "T\nLast Modified\nl"
B_lm == << "T", "\n", "L", "a", "s", "t", " ", "M", "o", "d", "i", "f",
    "i", "e", "d", "\n", "l" >>

\* "T\nSub Tag\n""s"
B_sub == << "T", "\n", "S", "u", "b", " ", "T", "a", "g", "\n", "\"", "\"",
    "s" >>

\* "T\nA\tB\n1\n2\t3\t4"
B_short == << "T", "\n", "A", "\t", "B", "\n", "1", "\n", "2", "\t", "3",
    "\t", "4" >>

\* "T\nA\n\n1"
B_gap == << "T", "\n", "A", "\n", "\n", "1" >>

\* characters of the exhaustively drawn report texts
Alphabet == { "a", TAB, LF, CR }

\* report bodies with real headers: a plain one, three whose header names
\* format to the names of the provenance fields, one with a "Sub Tag"
\* column and a doubled quote, one with a short and a long row, one with an
\* empty line among its data lines
ReportPool == { B_plain, B_fn, B_rt, B_lm, B_sub, B_short, B_gap }

\* listing rows <<filename, modification time, href>>: report files of
\* every kind, one of a kind without a child stream, a bounty file, a file that is no tsv, a tsv file whose name
\* does not match the report pattern, and a row whose time zone strptime
\* does not know
RowPool ==
    { << F_earn, T_jan2, H_x >>, << F_ukearn, T_jan3, H_x >>,
      << F_ukorders, T_jan3, H_x >>, << F_uktrack, T_jan2, H_x >>,
      << F_utm, T_jan2, H_x >>, << F_clicks, T_jan2, H_x >>,
      << F_bounty, T_jan2, H_x >>,
      << F_xml, T_jan2, H_x >>, << F_readme, T_jan2, H_x >>,
      << F_earn, T_pst, H_x >> }

\* persisted watermarks: none, one in each accepted format (the first equal
\* to a listing time, the second a second earlier), one no format accepts
WatermarkPool == { None, Some(W_jan2), Some(W_iso), Some(W_bad) }

\* selections of child streams
SelectedPool ==
    { { },
      { N_EarningsReport, N_EarningsReportSubtags, N_TrackingReport },
      { N_EarningsReport, N_OrdersReport, N_TrackingReport,
        N_EarningsReportSubtags, N_OrdersReportSubtags, N_UtmSourceReport } }

\* the texts of the report files the portal serves
ServedTexts == { B_fn, B_rt, B_lm }

\* the gzip stream z with the token at position p corrupted
Damaged(z, p) == [z EXCEPT ![p] = GzBad]

\* the gzip stream z cut off after n tokens
Truncated(z, n) == SubSeq(z, 1, n)

\* what the portal answers a fetch with: the compressed text of a report,
\* intact, with a corrupt header, with corrupt data after the second line,
\* with a corrupt trailer, or cut off before its trailer
ServedBodies ==
    { [text |-> t, body |-> Gzip(t)] : t \in ServedTexts }
    \cup { [text |-> B_fn, body |-> Damaged(Gzip(B_fn), p)] :
               p \in { 1, Len(B_fn), Len(Gzip(B_fn)) } }
    \cup { [text |-> B_fn, body |-> Truncated(Gzip(B_fn), Len(Gzip(B_fn)) - 1)] }

\* longest compressed stream of the model, in tokens
MaxTokens == 2 + SetMax({ Len(b) : b \in ReportPool \cup ServedTexts })

---------------------------------------------------------------------------
(* The run: the framework pulls the listing's records one by one, post-    *)
(* processes each and calls _sync_children with its child context; a       *)
(* dispatched child sync fetches, gunzips, splits and parses its file.     *)
(* An exception that nothing catches ends the run (pc = "failed").         *)

\* a child sync that keeps the inflate state, the pending fragment and the
\* header of the stream object's previous sync
FreshPipeline_reused(body) ==
    /\ stream' = body
    /\ i' = 0
    /\ yielded' = 0
    /\ lines' = << >>
    /\ fed' = 0
    /\ UNCHANGED << o, pending, headers >>

\* the locals of a child sync that has just been given its response
FreshPipeline(body) ==
    /\ stream' = body
    /\ o' = decompressobj
    /\ pending' = None
    /\ i' = 0
    /\ headers' = None
    /\ yielded' = 0
    /\ lines' = << >>
    /\ fed' = 0

pipeVars == << stream, o, pending, i, headers, text, yielded, lines, fed >>

Raise(e) == pc' = "failed" /\ error' = Some(e)

\* ReportListStream.parse_response on the fetched listing page
ParseListing ==
    /\ pc = "start"
    /\ IF ReportList_parse_response(page).ok
       THEN /\ file_list' = ReportList_parse_response(page).file_list
            /\ pc' = "records"
            /\ error' = error
       ELSE /\ file_list' = << >>
            /\ Raise("ValueError: listing time")
    /\ UNCHANGED << page, watermark, selected, descriptors, dispatched, logged,
                    kid, child, ctx, attempts, out, pipeVars >>

\* the next row of the listing: post_process, then get_child_context and
\* the entry into _sync_children
NextRecord ==
    /\ pc = "records"
    /\ file_list # << >>
    /\ file_list' = Tail(file_list)
    /\ LET r == ReportList_post_process(Head(file_list)) IN
         /\ logged' = logged + r.logs
         /\ IF r.raised
            THEN /\ Raise("UnboundLocalError: report_type")
                 /\ UNCHANGED << descriptors, ctx, kid >>
            ELSE /\ descriptors' = Append(descriptors, r.record)
                 /\ ctx' = Some(get_child_context(r.record))
                 /\ kid' = 1
                 /\ pc' = "children"
                 /\ error' = error
    /\ UNCHANGED << page, watermark, selected, dispatched, child, attempts, out,
                    pipeVars >>

\* ReportStream.request_records, lines 212-221: one requests.get, not
\* wrapped by request_decorator; it returns the response or raises
request_records ==
    /\ attempts' = 1
    /\ \/ \E b \in ServedBodies :
             /\ text' = b.text
             /\ FreshPipeline(b.body)
             /\ pc' = "streaming"
             /\ error' = error
       \/ \E e \in FetchErrors :
             /\ Raise(e)
             /\ UNCHANGED pipeVars

\* a turn of the loop that moves the watermark to the dispatched
\* descriptor's last_modified
SyncChild_advances ==
    /\ pc = "children"
    /\ kid <= NumChildren
    /\ kid' = kid + 1
    /\ LET r == sync_child(Children[kid], selected, watermark, ctx[1]) IN
         \/ /\ r = "skip"
            /\ UNCHANGED << pc, error, dispatched, child, attempts, pipeVars,
                            watermark >>
         \/ /\ r = "raise"
            /\ Raise("ValueError: time data")
            /\ UNCHANGED << dispatched, child, attempts, pipeVars, watermark >>
         \/ /\ r = "dispatch"
            /\ dispatched' = Append(dispatched, << ctx[1].filename, Children[kid] >>)
            /\ child' = Some(Children[kid])
            /\ watermark' = Some(ctx[1].last_modified)
            /\ request_records
    /\ UNCHANGED << page, selected, file_list, descriptors, logged, ctx, out >>

\* one turn of _sync_children's loop, with the child sync's fetch when the
\* child is dispatched
SyncChild ==
    /\ pc = "children"
    /\ kid <= NumChildren
    /\ kid' = kid + 1
    /\ LET r == sync_child(Children[kid], selected, watermark, ctx[1]) IN
         \/ /\ r = "skip"
            /\ UNCHANGED << pc, error, dispatched, child, attempts, pipeVars >>
         \/ /\ r = "raise"
            /\ Raise("ValueError: time data")
            /\ UNCHANGED << dispatched, child, attempts, pipeVars >>
         \/ /\ r = "dispatch"
            /\ dispatched' = Append(dispatched, << ctx[1].filename, Children[kid] >>)
            /\ child' = Some(Children[kid])
            /\ request_records
    /\ UNCHANGED << page, watermark, selected, file_list, descriptors, logged,
                    ctx, out >>

\* _sync_children's loop is over: back to the listing's records
ChildrenDone ==
    /\ pc = "children"
    /\ kid > NumChildren
    /\ pc' = "records"
    /\ UNCHANGED << listingVars, error, kid, child, ctx, attempts, out, pipeVars >>

\* -------------------- the pipeline of a dispatched child sync

\* the chunk d that decompress_stream yields, pulled through
\* iter_decompressed_lines and parse_response; `last` is the flush chunk,
\* after which the pending fragment, if any, is yielded as a final line
Pull(d, last) ==
    LET r   == iter_decompressed_lines(pending, d)
        st0 == [i |-> i, headers |-> headers, recs |-> << >>, err |-> None,
                seen |-> << >>]
        st1 == parse_lines(st0, r.yield, child[1], ctx[1])
    IN  IF last /\ ~IsNone(r.pending)
        THEN [st |-> parse_lines(st1, << r.pending[1] >>, child[1], ctx[1]),
              pending |-> r.pending]
        ELSE [st |-> st1, pending |-> r.pending]

\* the effect of one pulled chunk on the parser's variables and the output
Pulled(p, next) ==
    /\ pending' = p.pending
    /\ i' = p.st.i
    /\ headers' = p.st.headers
    /\ out' = out \o [n \in 1..Len(p.st.recs) |->
                        [rec |-> p.st.recs[n].rec, hdr |-> p.st.recs[n].hdr,
                         line |-> p.st.recs[n].line, desc |-> Len(descriptors)]]
    /\ lines' = lines \o p.st.seen
    /\ yielded' = yielded + 1
    /\ IF IsNone(p.st.err)
       THEN pc' = next /\ error' = error
       ELSE pc' = "failed" /\ error' = p.st.err

\* decompress_stream lines 141-142: the next chunk of the response (its
\* first k tokens) is fed to the inflate state and the result is yielded
Feed(k) ==
    /\ pc = "streaming"
    /\ k \in 0..Len(stream)
    /\ fed < MaxChunks
    /\ k = Len(stream) \/ fed + 1 < MaxChunks
    /\ \E r \in { decompress(o, SubSeq(stream, 1, k)) } :
         /\ stream' = SubSeq(stream, k + 1, Len(stream))
         /\ fed' = fed + 1
         /\ o' = r.o
         /\ IF r.ok
            THEN \E p \in { Pull(r.data, FALSE) } : Pulled(p, "streaming")
            ELSE /\ pc' = "failed"
                 /\ error' = Some("zlib.error")
                 /\ UNCHANGED << pending, i, headers, out, lines, yielded >>
    /\ UNCHANGED << listingVars, kid, child, ctx, attempts, text >>

\* a flush that does not wait for the response to be exhausted
Flush_early ==
    /\ pc = "streaming"
    /\ \E p \in { Pull(flush(o), TRUE) } : Pulled(p, "children")
    /\ UNCHANGED << listingVars, kid, child, ctx, attempts, text, stream, o, fed >>

\* decompress_stream line 144 and the end of the three generators: the
\* response is exhausted, the flush chunk is yielded, the child sync returns
Flush ==
    /\ pc = "streaming"
    /\ stream = << >>
    /\ \E p \in { Pull(flush(o), TRUE) } : Pulled(p, "children")
    /\ UNCHANGED << listingVars, kid, child, ctx, attempts, text, stream, o, fed >>

\* the listing has no more rows: the run ends
Finish ==
    /\ pc = "records"
    /\ file_list = << >>
    /\ pc' = "done"
    /\ UNCHANGED << listingVars, error, kid, child, ctx, attempts, stream, o,
                    pending, i, headers, out, text, yielded, lines, fed >>

---------------------------------------------------------------------------
\* during a run the response arrives in chunks of ChunkTokens tokens, the
\* last one shorter
FeedChunk ==
    /\ stream # << >>
    /\ Feed(Min(ChunkTokens, Len(stream)))

\* a run: any listing page, watermark and selection
Init ==
    /\ page \in SeqsUpTo(RowPool, MaxRows)
    /\ watermark \in WatermarkPool
    /\ selected \in SelectedPool
    /\ pc = "start"
    /\ file_list = << >>
    /\ descriptors = << >>
    /\ dispatched = << >>
    /\ error = None
    /\ logged = 0
    /\ kid = 0
    /\ child = None
    /\ ctx = None
    /\ attempts = 0
    /\ stream = << >>
    /\ o = decompressobj
    /\ pending = None
    /\ i = 0
    /\ headers = None
    /\ out = << >>
    /\ text = << >>
    /\ yielded = 0
    /\ lines = << >>
    /\ fed = 0

Next ==
    \/ ParseListing
    \/ NextRecord
    \/ SyncChild
    \/ ChildrenDone
    \/ FeedChunk
    \/ Flush
    \/ Finish

Spec == Init /\ [][Next]_vars

\* one child sync on its own, from the point where request_records has its
\* response: a listing of one report row, a watermark earlier than the row,
\* its child stream dispatched, and any text served, compressed
InitPipe ==
    /\ \E row \in { << F_earn, T_jan2, H_x >>, << F_ukearn, T_jan3, H_x >> } :
          /\ page = << row >>
          /\ descriptors = << ReportList_post_process(NewRow(row)).record >>
    /\ watermark = Some(W_iso)
    /\ child = Some(descriptors[1].report_type)
    /\ selected = { child[1] }
    /\ ctx = Some(get_child_context(descriptors[1]))
    /\ kid = 1 + (CHOOSE k \in 1..NumChildren : Children[k] = child[1])
    /\ dispatched = << << descriptors[1].filename, child[1] >> >>
    /\ file_list = << >>
    /\ logged = 0
    /\ error = None
    /\ attempts = 1
    /\ pc = "streaming"
    /\ text \in SeqsUpTo(Alphabet, MaxLen) \cup ReportPool
    /\ stream = Gzip(text)
    /\ o = decompressobj
    /\ pending = None
    /\ i = 0
    /\ headers = None
    /\ yielded = 0
    /\ lines = << >>
    /\ fed = 0
    /\ out = << >>

NextPipe ==
    \/ \E k \in 0..MaxTokens : Feed(k)
    \/ Flush
    \/ SyncChild
    \/ ChildrenDone
    \/ Finish

SpecPipe == InitPipe /\ [][NextPipe]_vars

---------------------------------------------------------------------------
(* Properties of the pipeline, checked under SpecPipe.                     *)

IsPrefix(s, t) == Len(s) <= Len(t) /\ SubSeq(t, 1, Len(s)) = s

\* the bare records of an output sequence
Recs(rs) == [n \in 1..Len(rs) |-> rs[n].rec]

\* the child sync has returned normally
Returned == pc \in { "children", "records", "done" }

\* C1 (as claimed): whatever the chunking, when the child sync has returned
\* the lines iter_decompressed_lines yielded are exactly the lines of the
\* uncompressed text: none lost, duplicated, split or merged.
C1_LinesAreTextLines == Returned => lines = SplitLines(text)

\* the records parse_response and post_process make of the line sequence ls:
\* the header is line 1, and every non-empty line from index 2 on is a row
RECURSIVE RowsFrom(_, _, _, _)
RowsFrom(ls, n, name, context) ==
    IF n > Len(ls) THEN << >>
    ELSE (IF ls[n] = << >> THEN << >>
          ELSE << post_process(name, ZipRow(SplitOn(ls[2], TAB), SplitOn(ls[n], TAB)),
                               context) >>)
         \o RowsFrom(ls, n + 1, name, context)

\* C7 (as claimed): a stream of n lines yields exactly max(0, n - 2) records.
C7_OneRecordPerDataLine == Returned => Len(out) = Max(0, Len(lines) - 2)

\* C7 (amended): line 0 is discarded, line 1 is the header, and exactly the
\* NON-EMPTY lines at index >= 2 become records, in order, keyed by the
\* header names of line 1; empty lines count in the index but yield nothing,
\* so there are at most max(0, n - 2) records.  While the parser runs (and
\* when it has raised on an uncaptured header) the output is a prefix of
\* these records.
C7_RecordsOfNonEmptyDataLines ==
    /\ Len(out) <= Max(0, Len(lines) - 2)
    /\ IsPrefix(Recs(out), RowsFrom(lines, 3, child[1], ctx[1]))
    /\ Returned => Recs(out) = RowsFrom(lines, 3, child[1], ctx[1])
    /\ (Returned /\ \A n \in 3..Len(lines) : lines[n] # << >>)
          => Len(out) = Max(0, Len(lines) - 2)

\* C7 witness: a returned sync of four lines, one data line empty and one
\* turned into a record
C7_Witness ==
    /\ pc = "done"
    /\ Len(lines) = 4
    /\ lines[3] = << >>
    /\ Len(out) = 1

---------------------------------------------------------------------------
(* Properties of a run, checked under Spec.                                *)

\* the digits of a timestamp, in order: year, month, day, hour, minute,
\* second in both formats of the code
StampDigits(s) == SelectSeq(s, IsDigit)

\* a is later than b: the digit strings of equal length compare as numbers
LaterDigits(a, b) ==
    \E k \in 1..Len(a) :
        /\ DigitVal(a[k]) > DigitVal(b[k])
        /\ \A j \in 1..(k - 1) : a[j] = b[j]

\* the claimed dispatch condition for child stream `name` and descriptor d
DispatchCondition(name, d) ==
    /\ name \in selected
    /\ name = d.report_type
    /\ ~IsNone(watermark)
    /\ Len(StampDigits(watermark[1])) = Len(StampDigits(d.last_modified))
    /\ LaterDigits(StampDigits(d.last_modified), StampDigits(watermark[1]))

\* _sync_children is at child stream Children[kid] for the last descriptor
AtChild == pc = "children" /\ kid <= NumChildren

\* C2: for every discovered descriptor and every registered child stream,
\* _sync_children starts that child's sync, with the descriptor's context,
\* if and only if the child is selected, its name is the descriptor's
\* report_type, a watermark exists and the descriptor's last_modified is
\* strictly later than the watermark; no other step dispatches anything.
C2_DispatchIff ==
    [][ /\ AtChild =>
            IF DispatchCondition(Children[kid], Last(descriptors))
            THEN /\ dispatched' =
                       Append(dispatched, << Last(descriptors).filename, Children[kid] >>)
                 /\ child' = Some(Children[kid])
                 /\ ctx' = Some(get_child_context(Last(descriptors)))
            ELSE dispatched' = dispatched
        /\ ~AtChild => dispatched' = dispatched ]_vars

\* C2 witness: a finished run over two descriptors of which, with a
\* watermark equal to the timestamp of one, exactly the later one was
\* dispatched
C2_Witness ==
    /\ pc = "done"
    /\ Len(descriptors) = 2
    /\ watermark = Some(W_jan2)
    /\ descriptors[1].last_modified = W_jan2
    /\ descriptors[1].report_type \in selected
    /\ dispatched = << << descriptors[2].filename, descriptors[2].report_type >> >>

\* C3 (as claimed): a fetch that ends the run with one of the retried
\* errors has been attempted backoff_max_tries times.
C3_FatalOnlyAfterMaxTries ==
    (pc = "failed" /\ error \in { Some(e) : e \in RetriedErrors })
        => attempts = backoff_max_tries

\* C4 (as claimed): a decode failure is fatal for its file only: it never
\* ends the run while rows of the listing are still to be evaluated.
C4_DecodeFailureIsolated ==
    ~(pc = "failed" /\ error = Some("zlib.error") /\ file_list # << >>)

\* C5 (as claimed): a filename the pattern does not match raises nothing:
\* every row parse_response kept becomes a descriptor, and the run goes on.
C5_NoMatchRaisesNothing ==
    /\ error # Some("UnboundLocalError: report_type")
    /\ \A n \in 1..Len(page) :
          (IsReportRow(page[n]) /\ IsNone(re_match_group1(page[n][1])) /\ pc = "done")
              => \E m \in 1..Len(descriptors) : descriptors[m].filename = page[n][1]

\* the three provenance keys
ProvenanceKeys == { S_filename, S_report_type, S_last_modified }

\* the cell of column m of a data line, as the record holds it
Cell(line, m) == ReplaceStr(SplitOn(line, TAB)[m], << QUOTE, QUOTE >>, << >>)

\* the formatted names of the columns of header hdr that have a cell in line
ColumnKeys(name, hdr, line) ==
    [m \in 1..Min(Len(hdr), Len(SplitOn(line, TAB))) |-> format_key(name, hdr[m])]

\* C6: every emitted record carries the filename, report_type and
\* last_modified of the descriptor that triggered its fetch, also when a
\* column of the report formats to one of these names; every other column
\* keeps its parsed cell, and the record has no further fields.
C6_ProvenanceOverwrites ==
    \A n \in 1..Len(out) :
        LET r    == out[n]
            d    == descriptors[r.desc]
            keys == ColumnKeys(d.report_type, r.hdr, r.line)
        IN  /\ DictHas(r.rec, S_filename)
            /\ DictGet(r.rec, S_filename) = d.filename
            /\ DictHas(r.rec, S_report_type)
            /\ DictGet(r.rec, S_report_type) = d.report_type
            /\ DictHas(r.rec, S_last_modified)
            /\ DictGet(r.rec, S_last_modified) = d.last_modified
            /\ \A m \in 1..Len(keys) :
                  (/\ keys[m] \notin ProvenanceKeys
                   /\ \A j \in (m + 1)..Len(keys) : keys[j] # keys[m])
                      => /\ DictHas(r.rec, keys[m])
                         /\ DictGet(r.rec, keys[m]) = Cell(r.line, m)
            /\ \A j \in 1..Len(r.rec) :
                  r.rec[j].k \in ProvenanceKeys \cup { keys[m] : m \in 1..Len(keys) }

\* C6 witness: a record of a report that has a Filename column and another
\* column, emitted for a descriptor of another file name
C6_Witness ==
    \E n \in 1..Len(out) :
        /\ out[n].hdr = << << "F", "i", "l", "e", "n", "a", "m", "e" >>, << "A" >> >>
        /\ out[n].line = << "f", TAB, "1" >>
        /\ DictGet(out[n].rec, S_filename) = F_earn
        /\ DictGet(out[n].rec, << "a" >>) = << "1" >>

\* the report kind of a file name <prefix>-<dd>-<kind>-<yyyymmdd>.tsv.gz:
\* what lies between the two digits after the first hyphen and the date
KindOf(f) ==
    LET a == CHOOSE k \in 1..Len(f) : f[k] = "-" /\ \A j \in 1..(k - 1) : f[j] # "-"
    IN  SubSeq(f, a + 4, Len(f) - 16)

\* a word with its first character in upper case
Capitalised(w) == [k \in 1..Len(w) |-> IF k = 1 THEN UpperChar(w[k]) ELSE w[k]]

\* a word with every run of letters capitalised and otherwise in lower case
TitleCased(w) ==
    [k \in 1..Len(w) |->
        IF k = 1 \/ ~IsAlpha(w[k - 1]) THEN UpperChar(w[k]) ELSE LowerChar(w[k])]

\* first the type of the kind's hyphen-separated words, then the Subtags
\* suffix for the regional account's earnings and orders reports
TypeCapitalised(f) ==
    LET words == SplitOn(KindOf(f), "-")
    IN  Flatten([n \in 1..Len(words) |-> Capitalised(words[n])])

TypeTitleCased(f) ==
    LET words == SplitOn(KindOf(f), "-")
    IN  Flatten([n \in 1..Len(words) |-> TitleCased(words[n])])

WithSubtags(f, type) ==
    IF Contains(f, S_uk21) /\ type \in { N_EarningsReport, N_OrdersReport }
    THEN type \o S_Subtags
    ELSE type

\* C8 (as claimed): the report_type of a descriptor is its report kind with
\* the hyphens removed and each hyphen-separated word capitalised, with
\* Subtags appended iff the file name contains uk-21 and the type is
\* EarningsReport or OrdersReport.
C8_WordsCapitalised ==
    \A n \in 1..Len(descriptors) :
        descriptors[n].report_type =
            WithSubtags(descriptors[n].filename, TypeCapitalised(descriptors[n].filename))

\* C8 (amended): the report_type of a descriptor is its report kind with
\* the hyphens removed and each hyphen-separated word title-cased (every
\* run of letters starts in upper case, also after an underscore or a
\* digit, and continues in lower case), with Subtags appended iff the file
\* name contains uk-21 and the type is EarningsReport or OrdersReport;
\* every other type is unchanged, also for a uk-21 file name.
C8_WordsTitleCased ==
    \A n \in 1..Len(descriptors) :
        descriptors[n].report_type =
            WithSubtags(descriptors[n].filename, TypeTitleCased(descriptors[n].filename))

\* C8 witness: a uk-21 earnings report typed with the suffix next to a uk-21
\* tracking report typed without it
C8_Witness ==
    /\ Len(descriptors) = 2
    /\ descriptors[1].filename = F_ukearn
    /\ descriptors[1].report_type = N_EarningsReportSubtags
    /\ descriptors[2].filename = F_uktrack
    /\ descriptors[2].report_type = N_TrackingReport

\* the rows of the page that qualify: tsv in the file name, bounty not
Qualifying(pg) ==
    SelectSeq(pg, LAMBDA row : Contains(row[1], S_tsv) /\ ~Contains(row[1], S_bounty))

\* the month number of a listing timestamp, two digits
MonthDigits(t) == Pad2(CHOOSE m \in 1..12 : MonthNames[m] = Lower(SubSeq(t, 5, 7)))

\* "Mon Jan 02 03:04:05 UTC 2023" reformatted as "2023-01-02 03:04:05 "
Reformatted(t) ==
    SubSeq(t, Len(t) - 3, Len(t)) \o << "-" >> \o MonthDigits(t) \o << "-" >>
        \o SubSeq(t, 9, 10) \o << " " >> \o SubSeq(t, 12, 19) \o << " " >>

\* the time zone field of a listing timestamp
ZoneOf(t) == SubSeq(t, 21, Len(t) - 5)

\* C9 (as claimed): last_modified is the source timestamp reformatted with
\* its time zone, followed by UTC: a source zone UTC gives "... UTCUTC".
C9_ZoneThenUTC ==
    LET rows == Qualifying(page) IN
    \A n \in 1..Len(descriptors) :
        descriptors[n].last_modified =
            Reformatted(rows[n][2]) \o ZoneOf(rows[n][2]) \o S_UTC

\* C9 (amended): last_modified is the source timestamp reformatted as
\* YYYY-MM-DD HH:MM:SS followed by a space and the literal UTC; the source's
\* time zone field is dropped (the parsed datetime is naive, its %Z is the
\* empty string), so a source zone UTC gives a single designator:
\* 'Mon Jan 02 03:04:05 UTC 2023' gives '2023-01-02 03:04:05 UTC'.
C9_SingleUTC ==
    LET rows == Qualifying(page) IN
    \A n \in 1..Len(descriptors) :
        descriptors[n].last_modified = Reformatted(rows[n][2]) \o S_UTC

\* C9 witness: the descriptor of a row stamped 'Mon Jan 02 03:04:05 UTC 2023'
\* next to one stamped in GMT
C9_Witness ==
    /\ Len(descriptors) = 2
    /\ Qualifying(page)[1][2] = T_jan2
    /\ descriptors[1].last_modified = W_jan2
    /\ ZoneOf(Qualifying(page)[2][2]) = << "G", "M", "T" >>

\* the file names of a sequence of rows or descriptors
RowNames(rows) == [n \in 1..Len(rows) |-> rows[n][1]]

Filenames(ds) == [n \in 1..Len(ds) |-> ds[n].filename]

CharsAt(s, ps) == { s[k] : k \in ps }

\* s has the shape of format A: "YYYY-MM-DD HH:MM:SS " and a zone name
ShapeA(s) ==
    /\ Len(s) > 20
    /\ \A k \in (1..19) \ { 5, 8, 11, 14, 17 } : IsDigit(s[k])
    /\ CharsAt(s, { 5, 8 }) = { "-" }
    /\ CharsAt(s, { 11, 20 }) = { " " }
    /\ CharsAt(s, { 14, 17 }) = { ":" }
    /\ \A k \in 21..Len(s) : IsAlpha(s[k])

\* s has the shape of format B: "YYYY-MM-DDTHH:MM:SSZ"
ShapeB(s) ==
    /\ Len(s) = 20
    /\ \A k \in (1..19) \ { 5, 8, 11, 14, 17 } : IsDigit(s[k])
    /\ CharsAt(s, { 5, 8 }) = { "-" }
    /\ s[11] = "T"
    /\ CharsAt(s, { 14, 17 }) = { ":" }
    /\ s[20] = "Z"

\* C11: at a selected child stream with a watermark present, a watermark of
\* format A, or else of format B, is the one last_modified is compared
\* with (the child is dispatched iff its name is the descriptor's
\* report_type and last_modified is strictly later); a watermark of neither
\* format raises ValueError, which ends the run with nothing dispatched for
\* that descriptor.
C11_FormatAThenB ==
    [][ (AtChild /\ Children[kid] \in selected /\ ~IsNone(watermark)) =>
          IF ShapeA(watermark[1]) \/ ShapeB(watermark[1])
          THEN /\ pc' # "failed" \/ error' \in { Some(e) : e \in FetchErrors }
               /\ (dispatched' # dispatched) <=>
                     /\ Children[kid] = Last(descriptors).report_type
                     /\ LaterDigits(StampDigits(Last(descriptors).last_modified),
                                    StampDigits(watermark[1]))
          ELSE /\ pc' = "failed"
               /\ error' = Some("ValueError: time data")
               /\ dispatched' = dispatched
               /\ \A n \in 1..Len(dispatched) :
                     dispatched[n][1] # Last(descriptors).filename ]_vars

\* C11 witness: a watermark only format B accepts was used for a dispatch
C11_Witness ==
    /\ watermark = Some(W_iso)
    /\ ~ShapeA(W_iso)
    /\ Len(dispatched) = 1
    /\ pc = "streaming"

---------------------------------------------------------------------------
(* Further properties of the pipeline, checked under SpecPipe.             *)

\* the number of values of a data line
FieldCount(line) == Len(SplitOn(line, TAB))

\* the non-empty lines at index >= 2 (the third line onwards)
DataLines == { k \in 3..Len(lines) : lines[k] # << >> }

\* C12: a data line with more or fewer values than the header has names is
\* no error: it still becomes one record, whose parsed fields pair the
\* first min(names, values) header names with the values at the same
\* positions, extra values and extra names being dropped, and the lines
\* after it are parsed as well.
C12_MisalignedRowsPairPositionally ==
    /\ \A n \in 1..Len(out) :
          LET r    == out[n]
              both == Min(Len(r.hdr), FieldCount(r.line))
              key  == [m \in 1..both |-> format_key(child[1], r.hdr[m])]
          IN  /\ \A m \in 1..both :
                    (/\ key[m] \notin ProvenanceKeys
                     /\ \A j \in (m + 1)..both : key[j] # key[m])
                        => /\ DictHas(r.rec, key[m])
                           /\ DictGet(r.rec, key[m]) = Cell(r.line, m)
              /\ \A j \in 1..Len(r.rec) :
                    r.rec[j].k \in ProvenanceKeys \cup { key[m] : m \in 1..both }
    /\ Returned => Len(out) = Cardinality(DataLines)

\* C12 witness: a finished sync whose two-column report had a data line of
\* one value and then one of three values, both turned into records
C12_Witness ==
    /\ pc = "done"
    /\ Len(out) = 2
    /\ Len(out[1].hdr) = 2
    /\ FieldCount(out[1].line) = 1
    /\ FieldCount(out[2].line) = 3
    /\ Len(out[2].rec) = 5

\* C14: the decompressor yields one chunk for each input chunk, after that
\* chunk has been fed to the inflate state, and then exactly one flush
\* chunk, after the input is exhausted: n + 1 chunks for n input chunks.
C14_OneChunkPerInputThenOneFlush ==
    [][ /\ fed' # fed =>
              /\ fed' = fed + 1
              /\ yielded = fed
              /\ pc' = "streaming" => yielded' = fed'
        /\ (yielded' # yielded /\ fed' = fed) =>
              /\ pc = "streaming"
              /\ stream = << >>
              /\ yielded = fed
              /\ yielded' = fed + 1
              /\ pc' # "streaming"
        /\ pc # "streaming" => (yielded' = yielded /\ fed' = fed)
        /\ (pc = "streaming" /\ pc' = "children") => yielded' = fed + 1 ]_vars

\* C14 witness: a sync that has returned after three input chunks and four
\* yielded chunks
C14_Witness ==
    /\ pc = "done"
    /\ fed = 3
    /\ yielded = 4

\* C16: the row parser never fails for want of a header: whenever a data
\* line (index >= 2) is turned into a record, line 1 has given the header,
\* also when line 1 is an empty line; so no sync ends with the parser's
\* local headers read before it was bound.
C16_HeaderCapturedBeforeData == error # Some("UnboundLocalError: headers")

---------------------------------------------------------------------------
(* Further properties of a run, checked under Spec.                        *)

\* C13: each file's sync starts with a fresh inflate state, no pending
\* fragment and no header, and all it yields comes from its own file: each
\* line yielded is (a prefix of) the line of the file's text at that index,
\* and each record emitted is made of the file's own header line and one
\* of its own data lines.
C13_FreshStatePerFile ==
    [][ /\ (pc = "children" /\ pc' = "streaming") =>
              /\ o' = decompressobj
              /\ pending' = None
              /\ headers' = None
              /\ i' = 0
        /\ pc = "streaming" =>
              LET own == SplitLines(text) IN
              /\ Len(lines') <= Len(own)
              /\ \A k \in 1..Len(lines') : IsPrefix(lines'[k], own[k])
              /\ \A n \in (Len(out) + 1)..Len(out') :
                    /\ out'[n].hdr = SplitOn(own[2], TAB)
                    /\ \E k \in 3..Len(own) : out'[n].line = own[k] ]_vars

\* C13 witness: two files synced in one run, the first ending in a line
\* without terminator, and records emitted for both under different headers
C13_Witness ==
    /\ Len(out) = 2
    /\ out[1].desc = 1
    /\ out[2].desc = 2
    /\ out[1].hdr # out[2].hdr
    /\ Last(out[1].line) # LF

\* _sync_children is running: at a turn of its loop or inside the child
\* sync it called
InSyncChildren == pc \in { "children", "streaming" }

\* C15: _sync_children only reads the watermark: whatever a step of it does
\* (a dispatch, a skip, the child sync's steps, an error), the persisted
\* starting_replication_value is the same after it as before.
C15_WatermarkOnlyRead == [][ InSyncChildren => watermark' = watermark ]_vars

\* C15 witness: a finished run with a watermark in which _sync_children
\* dispatched a child for one descriptor and none for the other
C15_Witness ==
    /\ pc = "done"
    /\ watermark = Some(W_iso)
    /\ Len(descriptors) = 2
    /\ Len(dispatched) = 1
    /\ out # << >>

\* the names of the registered child streams
ChildNames == { Children[k] : k \in 1..NumChildren }

\* each started child sync in ds can be given a descriptor of its own in rs,
\* in order, with that descriptor's filename and the child named like its
\* report_type
RECURSIVE Embeds(_, _)
Embeds(ds, rs) ==
    IF ds = << >> THEN TRUE
    ELSE IF rs = << >> THEN FALSE
    ELSE IF Head(ds) = << Head(rs).filename, Head(rs).report_type >>
         THEN Embeds(Tail(ds), Tail(rs))
    ELSE Embeds(ds, Tail(rs))

\* C17: whatever is selected and whatever the watermark, one descriptor
\* starts at most one child sync in its _sync_children call: the six child
\* names are pairwise distinct, the child syncs started so far belong, in
\* order, to distinct descriptors emitted so far, each to the child named
\* like its descriptor's report_type; and a descriptor whose report_type is
\* no child's name starts none.
C17_AtMostOneSyncPerDescriptor ==
    /\ \A a, b \in 1..NumChildren : Children[a] = Children[b] => a = b
    /\ Embeds(dispatched, descriptors)
    /\ \A n \in 1..Len(descriptors) :
           descriptors[n].report_type \notin ChildNames =>
               \A m \in 1..Len(dispatched) :
                   dispatched[m][1] # descriptors[n].filename

\* C17 witness: with every child selected and an earlier watermark, a
\* finished run over a descriptor of an unregistered kind and a descriptor of
\* a registered kind has started exactly one child sync, for the second
C17_Witness ==
    /\ pc = "done"
    /\ selected = ChildNames
    /\ Len(descriptors) = 2
    /\ descriptors[1].filename = F_clicks
    /\ descriptors[1].report_type \notin ChildNames
    /\ dispatched = << << F_utm, N_UtmSourceReport >> >>

\* C18: every last_modified the scraper gives a kept listing row is accepted
\* by strptime with '%Y-%m-%d %H:%M:%S %Z', the parse _sync_children applies
\* to it, so _sync_children raises a ValueError for a timestamp only over a
\* watermark that has neither accepted format, never over a descriptor.
C18_ScraperStampsParse ==
    [][ /\ (descriptors' # descriptors) =>
              /\ ShapeA(Last(descriptors').last_modified)
              /\ ~IsNone(strptime_A(Last(descriptors').last_modified))
        /\ (AtChild /\ error' = Some("ValueError: time data")) =>
              /\ ~IsNone(watermark)
              /\ ~ShapeA(watermark[1])
              /\ ~ShapeB(watermark[1]) ]_vars

\* C18 witness: _sync_children has parsed the timestamps of two descriptors,
\* from rows stamped in UTC and in GMT, against a watermark equal to the
\* first, and the run went on to its end with a child sync for the second
C18_Witness ==
    /\ pc = "done"
    /\ selected # { }
    /\ watermark = Some(W_jan2)
    /\ Len(descriptors) = 2
    /\ descriptors[1].last_modified = W_jan2
    /\ Qualifying(page)[2][2] = T_jan3
    /\ Len(dispatched) = 1

=============================================================================
